---------------------------- MODULE Spec2Model ----------------------------
(***************************************************************************)
(* A model of the spreadsheet scripts of this repository.                  *)
(*                                                                         *)
(* The rich-text section extractor (extractRichTextSection_) is modelled   *)
(* as a small program with a program counter: one action per statement     *)
(* group of the function, the two trimming loops one iteration per step.   *)
(* Strings are sequences of one-character strings; JavaScript indices are  *)
(* 0-based, so text[i] of the source is text[i + 1] here.                  *)
(***************************************************************************)
EXTENDS Integers, Sequences, FiniteSets, TLC

(***************************************************************************)
(* Bounds of the model.                                                    *)
(***************************************************************************)
\* longest source text of the inputs with one style run over the whole text
MaxLen == 7
\* longest source text of the inputs that carry up to MaxRuns style runs
MaxRunLen == 3
\* most style runs of a source text
MaxRuns == 2

(***************************************************************************)
(* Characters, strings and regular expressions.                            *)
(***************************************************************************)
\* The characters of the source texts: two marker characters, a whitespace
\* character and a content character.
Alphabet == {"a", "b", " ", "x"}

\* /\s/.test(c)
IsWhitespace(c) == c \in {" ", "\n"}

\* The item of a pattern that stands for \s* (every other item is a literal
\* character).
SStar == "\\s*"

\* The JavaScript value null / the absent result, and a present value.
Null == <<>>
Some(v) == <<v>>

\* String.prototype.slice(from) and String.prototype.substring(from, to),
\* for 0 <= from <= to <= length.
Substring(s, from, to) == SubSeq(s, from + 1, to)
Slice(s, from) == SubSeq(s, from + 1, Len(s))

\* The end (exclusive, 0-based) of the match of items i.. of regular
\* expression re that begins at position pos of s, or -1: a literal matches
\* itself, \s* matches the longest run of whitespace that lets the rest of
\* the expression match (greedy, with backtracking).
RECURSIVE MatchHere(_, _, _, _)
RECURSIVE GreedyStar(_, _, _, _, _)
MatchHere(re, i, s, pos) ==
    IF i > Len(re) THEN pos
    ELSE IF re[i] = SStar
         THEN LET wsEnd == CHOOSE k \in pos..Len(s) :
                              /\ \A j \in pos..(k - 1) : IsWhitespace(s[j + 1])
                              /\ (k < Len(s) => ~IsWhitespace(s[k + 1]))
              IN  GreedyStar(re, i, s, pos, wsEnd)
         ELSE IF pos < Len(s) /\ s[pos + 1] = re[i]
              THEN MatchHere(re, i + 1, s, pos + 1)
              ELSE -1
GreedyStar(re, i, s, pos, k) ==
    LET r == MatchHere(re, i + 1, s, k)
    IN  IF r # -1 THEN r
        ELSE IF k > pos THEN GreedyStar(re, i, s, pos, k - 1)
        ELSE -1

\* String.prototype.match(re) for a regular expression without the g flag:
\* null, or the leftmost match as [index, str] (match.index and match[0]).
Match(s, re) ==
    LET hits == {p \in 0..Len(s) : MatchHere(re, 1, s, p) # -1}
    IN  IF hits = {} THEN Null
        ELSE LET p == CHOOSE q \in hits : \A r \in hits : q <= r
             IN  Some([index |-> p, str |-> Substring(s, p, MatchHere(re, 1, s, p))])

\* IndexOf with a slip: the last occurrence (lastIndexOf) for the first.
IndexOf_Last(s, needle) ==
    LET hits == {p \in 0..(Len(s) - Len(needle)) :
                    Substring(s, p, p + Len(needle)) = needle}
    IN  IF hits = {} THEN -1
        ELSE CHOOSE q \in hits : \A r \in hits : q >= r

\* String.prototype.indexOf(needle): the first position at which needle
\* occurs in s, or -1.
IndexOf(s, needle) ==
    LET hits == {p \in 0..(Len(s) - Len(needle)) :
                    Substring(s, p, p + Len(needle)) = needle}
    IN  IF hits = {} THEN -1
        ELSE CHOOSE q \in hits : \A r \in hits : q <= r

Max(a, b) == IF a >= b THEN a ELSE b
Min(a, b) == IF a <= b THEN a ELSE b


(***************************************************************************)
(* The state.                                                              *)
(*   richText  the source RichTextValue of the current extractor call:     *)
(*             [obj, text, runs], obj the identity of the object, each run *)
(*             [start, end, style, link, obj] with obj the object owning it*)
(*   startRe, stopRe   the two patterns of the call                        *)
(*   pc        where the extractor call stands                             *)
(*   startIdx, endIdx  the locals of the same name                         *)
(*   result    the value returned (meaningful when pc = "ret")             *)
(*   calls     how many extractor calls the harness has made (1 or 2)      *)
(*   muniCell  the display value of the municipality cell of the template  *)
(*   cells     the six destination cells of the template sheet: Null for   *)
(*             an empty cell, Some(rich text value) otherwise              *)
(*   fpc       where the run of fillFormattedSections stands               *)
(*   secIdx    the position of SECTIONS.forEach (0: the loop not reached)  *)
(*   processed the sections this run has processed: [name, extracted]      *)
(*   outcome   how the last run of fillFormattedSections ended             *)
(*   cellsBefore  history: the destination cells when the run began        *)
(***************************************************************************)
VARIABLES richText, startRe, stopRe, pc, startIdx, endIdx, result, calls,
          muniCell, cells, fpc, secIdx, processed, outcome, cellsBefore

(***************************************************************************)
(* The state of the other scripts.                                         *)
(*  The image script (measureAndSetRowHeight):                             *)
(*   mpc       where the call stands                                       *)
(*   margs     the call: [version, url, maxWidth]                          *)
(*   tempDoc   the local of the same name: Null or Some(document id)       *)
(*   docs      the documents of the Drive: docs[id] is "live" or "trashed" *)
(*   image     the measured [height, width]; final, the dimensions used    *)
(*   rowHeight, targetCell   the row and the cell of the report sheet      *)
(*   thrown    the exception on its way: Null or Some(message)             *)
(*   escaped   whether the last call ended by an exception                 *)
(*   trashFailed  history: the documents whose setTrashed call threw       *)
(*  The timestamp script (onEdit):                                         *)
(*   tsCells   the cells of the sheet                                      *)
(*   clock     the time, in half seconds                                   *)
(*   edit      the last edit event raised: Null or Some(event)             *)
(*   pending   whether onEdit has yet to run for it                        *)
(*   tsBefore  history: the cells when the event was raised                *)
(*  The triggers of the Rolodex script:                                    *)
(*   triggers  the project's triggers, a set of [id, handler]              *)
(*   nextId    the id of the next trigger                                  *)
(*   lastOp    the last of enableMuniAuto / disableMuniAuto to have run    *)
(*   uiAlert   the text of the last alert shown                            *)
(*  muniEditHandler:                                                       *)
(*   ev        the event passed to the handler: Null or Some(event)        *)
(*   hpc       where the handler stands                                    *)
(*   hIdx      the position of its SECTIONS.forEach                        *)
(*   hEnd      how the last run of the handler ended                       *)
(*   hBefore   history: the destination cells when the handler began       *)
(***************************************************************************)
VARIABLES mpc, margs, tempDoc, docs, image, final, rowHeight, targetCell,
          thrown, escaped, trashFailed,
          tsCells, clock, edit, pending, tsBefore,
          triggers, nextId, lastOp, uiAlert,
          ev, hpc, hIdx, hEnd, hBefore

extractVars == <<richText, startRe, stopRe, pc, startIdx, endIdx, result, calls>>
fillVars == <<muniCell, cells, fpc, secIdx, processed, outcome, cellsBefore>>
measureVars == <<mpc, margs, tempDoc, docs, image, final, rowHeight, targetCell,
                 thrown, escaped, trashFailed>>
stampVars == <<tsCells, clock, edit, pending, tsBefore>>
triggerVars == <<triggers, nextId, lastOp, uiAlert>>
handlerVars == <<ev, hpc, hIdx, hEnd, hBefore>>
scriptVars == <<measureVars, stampVars, triggerVars, handlerVars>>
vars == <<richText, startRe, stopRe, pc, startIdx, endIdx, result, calls,
          muniCell, cells, fpc, secIdx, processed, outcome, cellsBefore,
          mpc, margs, tempDoc, docs, image, final, rowHeight, targetCell,
          thrown, escaped, trashFailed,
          tsCells, clock, edit, pending, tsBefore,
          triggers, nextId, lastOp, uiAlert,
          ev, hpc, hIdx, hEnd, hBefore>>

\* The absent link of a run (getLinkUrl() returns null).
NoLink == "null"
Styles == {"bold", "plain"}
Links == {NoLink, "http://u"}

(***************************************************************************)
(* extractRichTextSection_: the pieces of the function.                    *)
(***************************************************************************)
\* StartIdxOf with a slip: the length of the marker is not added, so that the
\* section begins at the marker.
StartIdxOf_MarkerIncluded(text, startMatch) == IndexOf(text, startMatch.str)

\* let startIdx = text.indexOf(startMatch[0]) + startMatch[0].length;
StartIdxOf(text, startMatch) ==
    IndexOf(text, startMatch.str) + Len(startMatch.str)
\* EndIdxOf with a slip: the stop marker is looked up in the whole text, not
\* in the text after the start marker.
EndIdxOf_WholeText(text, sIdx, re) ==
    LET afterContent == Slice(text, sIdx)
        stopMatch == Match(afterContent, re)
    IN  IF stopMatch # Null
        THEN IndexOf(text, stopMatch[1].str)
        ELSE Len(text)

\* EndIdxOf with a slip: without a stop marker the section ends one
\* character before the end of the text.
EndIdxOf_ShortOfEnd(text, sIdx, re) ==
    LET afterContent == Slice(text, sIdx)
        stopMatch == Match(afterContent, re)
    IN  IF stopMatch # Null
        THEN sIdx + IndexOf(afterContent, stopMatch[1].str)
        ELSE Max(sIdx, Len(text) - 1)

\* EndIdxOf with a slip: the stop pattern is matched against the whole text,
\* so that a stop marker before the start marker ends the section.
EndIdxOf_StopAnywhere(text, sIdx, re) ==
    LET stopMatch == Match(text, re)
    IN  IF stopMatch # Null
        THEN IndexOf(text, stopMatch[1].str)
        ELSE Len(text)

\* endIdx: text.length, or the place of the stop match in afterContent.
EndIdxOf(text, sIdx, re) ==
    LET afterContent == Slice(text, sIdx)
        stopMatch == Match(afterContent, re)
    IN  IF stopMatch # Null
        THEN sIdx + IndexOf(afterContent, stopMatch[1].str)
        ELSE Len(text)

\* SpreadsheetApp.newRichTextValue().setText(subText): a builder with no run.
NewRichTextValue(obj, subText) == [obj |-> obj, text |-> subText, runs |-> <<>>]
\* SetRun with a slip: setLinkUrl is never called.
SetRun_NoLink(builder, localStart, localEnd, style, link) ==
    [builder EXCEPT !.runs = Append(@,
        [start |-> localStart, end |-> localEnd, style |-> style,
         link  |-> NoLink, obj |-> builder.obj])]

\* builder.setTextStyle(localStart, localEnd, style) followed, when link is
\* truthy, by builder.setLinkUrl(localStart, localEnd, link): the builder
\* gets a run of its own over [localStart, localEnd).
SetRun(builder, localStart, localEnd, style, link) ==
    [builder EXCEPT !.runs = Append(@,
        [start |-> localStart, end |-> localEnd, style |-> style,
         link  |-> IF link # NoLink THEN link ELSE NoLink,
         obj   |-> builder.obj])]

\* ClipRun with a slip: a run that is only partly inside the section is
\* dropped.
ClipRun_InsideOnly(builder, run, sIdx, eIdx) ==
    IF sIdx <= run.start /\ run.end <= eIdx
    THEN [builder EXCEPT !.runs = Append(@,
            [start |-> run.start - sIdx, end |-> run.end - sIdx,
             style |-> run.style, link |-> run.link, obj |-> builder.obj])]
    ELSE builder

\* ClipRun with a slip: an empty overlap (>= for >) gives a run as well.
ClipRun_EmptyOverlap(builder, run, sIdx, eIdx) ==
    LET overlapStart == Max(run.start, sIdx)
        overlapEnd   == Min(run.end, eIdx)
    IN  IF overlapEnd >= overlapStart
        THEN [builder EXCEPT !.runs = Append(@,
                [start |-> overlapStart - sIdx, end |-> overlapEnd - sIdx,
                 style |-> run.style, link |-> run.link, obj |-> builder.obj])]
        ELSE builder

\* The body of richText.getRuns().forEach(run => ...), for one run.
ClipRun(builder, run, sIdx, eIdx) ==
    LET overlapStart == Max(run.start, sIdx)
        overlapEnd   == Min(run.end, eIdx)
    IN  IF overlapEnd > overlapStart
        THEN SetRun(builder, overlapStart - sIdx, overlapEnd - sIdx,
                    run.style, run.link)
        ELSE builder

\* richText.getRuns().forEach(...) from run k on.
RECURSIVE ForEachRun(_, _, _, _, _)
ForEachRun(builder, runs, k, sIdx, eIdx) ==
    IF k > Len(runs) THEN builder
    ELSE ForEachRun(ClipRun(builder, runs[k], sIdx, eIdx), runs, k + 1, sIdx, eIdx)

(***************************************************************************)
(* extractRichTextSection_: the steps of one call.                         *)
(***************************************************************************)
\* MatchMarkers with a slip: no return when the start marker is missing,
\* the section then beginning at the start of the text.
MatchMarkers_NoNullCheck ==
    /\ pc = "call"
    /\ LET text == richText.text
           startMatch == Match(text, startRe)
           sIdx == IF startMatch = Null THEN 0 ELSE StartIdxOf(text, startMatch[1])
       IN  /\ startIdx' = sIdx
           /\ endIdx' = EndIdxOf(text, sIdx, stopRe)
           /\ pc' = "trimStart"
           /\ UNCHANGED result
    /\ UNCHANGED <<richText, startRe, stopRe, calls>>
    /\ UNCHANGED <<fillVars, scriptVars>>

\* Lines 258-277: match the start marker (return null when it is missing),
\* compute startIdx and endIdx.
MatchMarkers ==
    /\ pc = "call"
    /\ LET text == richText.text
           startMatch == Match(text, startRe)
       IN  IF startMatch = Null
           THEN /\ result' = Null
                /\ pc' = "ret"
                /\ UNCHANGED <<startIdx, endIdx>>
           ELSE LET sIdx == StartIdxOf(text, startMatch[1])
                IN  /\ startIdx' = sIdx
                    /\ endIdx' = EndIdxOf(text, sIdx, stopRe)
                    /\ pc' = "trimStart"
                    /\ UNCHANGED result
    /\ UNCHANGED <<richText, startRe, stopRe, calls>>
    /\ UNCHANGED <<fillVars, scriptVars>>

\* while (startIdx < endIdx && /\s/.test(text[startIdx])) startIdx++;
TrimLeadingCond == startIdx < endIdx /\ IsWhitespace(richText.text[startIdx + 1])
TrimLeading ==
    /\ pc = "trimStart"
    /\ IF TrimLeadingCond
       THEN startIdx' = startIdx + 1 /\ pc' = pc
       ELSE startIdx' = startIdx /\ pc' = "trimEnd"
    /\ UNCHANGED <<richText, startRe, stopRe, endIdx, result, calls>>
    /\ UNCHANGED <<fillVars, scriptVars>>

\* TrimTrailingCond with a slip: the loop does not stop at startIdx.
TrimTrailingCond_Unguarded == endIdx > 0 /\ IsWhitespace(richText.text[endIdx])

\* while (endIdx > startIdx && /\s/.test(text[endIdx - 1])) endIdx--;
TrimTrailingCond == endIdx > startIdx /\ IsWhitespace(richText.text[endIdx])
TrimTrailing ==
    /\ pc = "trimEnd"
    /\ IF TrimTrailingCond
       THEN endIdx' = endIdx - 1 /\ pc' = pc
       ELSE endIdx' = endIdx /\ pc' = "build"
    /\ UNCHANGED <<richText, startRe, stopRe, startIdx, result, calls>>
    /\ UNCHANGED <<fillVars, scriptVars>>

\* Built with a slip: the source object is cut down in place and returned.
Built_InPlace(src, sIdx, eIdx) ==
    ForEachRun(NewRichTextValue(src.obj, Substring(src.text, sIdx, eIdx)),
               src.runs, 1, sIdx, eIdx)

\* Lines 287-319: null for an empty section, else the new rich text value.
Built(src, sIdx, eIdx) ==
    ForEachRun(NewRichTextValue(src.obj + 1, Substring(src.text, sIdx, eIdx)),
               src.runs, 1, sIdx, eIdx)
BuildResult ==
    /\ pc = "build"
    /\ result' = IF endIdx <= startIdx THEN Null
                 ELSE Some(Built(richText, startIdx, endIdx))
    /\ pc' = "ret"
    /\ UNCHANGED <<richText, startRe, stopRe, startIdx, endIdx, calls>>
    /\ UNCHANGED <<fillVars, scriptVars>>

(***************************************************************************)
(* The Rolodex script: configuration.                                      *)
(***************************************************************************)
\* Stands for the block character U+2587 of the section markers.
Block == "#"

\* The literal ends of the marker patterns.
AppraiserLabel == <<"A", "p", "p", "r", "a", "i", "s", "e", "r", ":">>
TaxesLabel == <<"T", "a", "x", "e", "s", ":">>
UtilitiesLabel == <<"U", "t", "i", "l", "i", "t", "i", "e", "s", ":">>
PermitsLabel == <<"P", "e", "r", "m", "i", "t", "s", ":">>
CodeLabel == <<"C", "o", "d", "e", ":">>
SpecialLabel == <<"S", "p", "e", "c", "i", "a", "l", ":">>
ContactInfoLabel == <<"C", "o", "n", "t", "a", "c", "t", " ", "I", "n", "f", "o", ":">>

\* /<digit>\.\s*<block>\s*<label>/
MarkerRe(digit, label) == <<digit, ".", SStar, Block, SStar>> \o label

SECTIONS == <<
    [name |-> "Appraiser", start |-> MarkerRe("1", AppraiserLabel),
     stop |-> MarkerRe("2", TaxesLabel), targetA1 |-> "B14"],
    [name |-> "Taxes", start |-> MarkerRe("2", TaxesLabel),
     stop |-> MarkerRe("3", UtilitiesLabel), targetA1 |-> "B22"],
    [name |-> "Utilities", start |-> MarkerRe("3", UtilitiesLabel),
     stop |-> MarkerRe("4", PermitsLabel), targetA1 |-> "B30"],
    [name |-> "Permits", start |-> MarkerRe("4", PermitsLabel),
     stop |-> MarkerRe("5", CodeLabel), targetA1 |-> "B43"],
    [name |-> "Code", start |-> MarkerRe("5", CodeLabel),
     stop |-> MarkerRe("6", SpecialLabel), targetA1 |-> "B68"],
    [name |-> "Special", start |-> MarkerRe("6", SpecialLabel),
     stop |-> MarkerRe("7", ContactInfoLabel), targetA1 |-> "B93"] >>

Targets == {SECTIONS[k].targetA1 : k \in 1..Len(SECTIONS)}

(***************************************************************************)
(* The Rolodex sheet the script reads (the lookup provider): rows of a     *)
(* municipality name and a rich text of instructions.                      *)
(***************************************************************************)
AmesText ==
    <<"1", ".", " ", Block, " ", "A", "p", "p", "r", "a", "i", "s", "e",
      "r", ":", " ", "C", "a", "l", "l", " ", "J", "o", "h", "n", " ", "a",
      "t", " ", "5", "5", "5", "-", "1", "2", "3", "4", ".", " ", "2", ".",
      " ", Block, " ", "T", "a", "x", "e", "s", ":", " ", "P", "a", "y", " ",
      "b", "y", " ", "M", "a", "y", " ", "3", ".", Block, "U", "t", "i",
      "l", "i", "t", "i", "e", "s", ":", "\n", " ", "4", ".", " ", Block, " ",
      "P", "e", "r", "m", "i", "t", "s", ":", " ", "n", "o", "n", "e", " ",
      "5", ".", " ", Block, " ", "C", "o", "d", "e", ":", " ", "R", "-",
      "1", " ", "6", ".", " ", Block, " ", "S", "p", "e", "c", "i", "a",
      "l", ":", " ", "7", ".", " ", Block, " ", "C", "o", "n", "t", "a",
      "c", "t", " ", "I", "n", "f", "o", ":", " ", "x">>
AmesRuns ==
    <<[start |-> 0, end |-> 20, style |-> "bold", link |-> NoLink, obj |-> 1],
      [start |-> 29, end |-> 37, style |-> "plain", link |-> "http://u", obj |-> 1],
      [start |-> 58, end |-> 69, style |-> "bold", link |-> NoLink, obj |-> 1],
      [start |-> 107, end |-> 110, style |-> "plain", link |-> NoLink, obj |-> 1]>>
BooneText ==
    <<"2", ".", " ", Block, " ", "T", "a", "x", "e", "s", ":", " ", "D",
      "u", "e", " ", "1", " ", "J", "u", "n", "e", " ", "5", ".", " ",
      Block, " ", "C", "o", "d", "e", ":", " ", "s", "e", "e", " ", "6",
      ".", Block, " ", "S", "p", "e", "c", "i", "a", "l", ":", " ", "f",
      "l", "o", "o", "d", " ", "z", "o", "n", "e">>
BooneRuns ==
    <<[start |-> 18, end |-> 37, style |-> "bold", link |-> "http://u", obj |-> 1]>>
CaryText == <<" ", " ", "\n">>

Rolodex == <<
    [muni |-> "Ames",   richText |-> [obj |-> 1, text |-> AmesText, runs |-> AmesRuns]],
    [muni |-> "",       richText |-> [obj |-> 1, text |-> <<>>, runs |-> <<>>]],
    [muni |-> " Boone", richText |-> [obj |-> 1, text |-> BooneText, runs |-> BooneRuns]],
    [muni |-> "Cary",   richText |-> [obj |-> 1, text |-> CaryText, runs |-> <<>>]] >>

\* The values the municipality cell of the template takes.
MuniValues == {"", " ", "ames", "Ames", "Boone", "Cary", "Zed"}

\* String.prototype.trim and toUpperCase on the display values above.
TrimString(s) == CASE s = " " -> "" [] s = " Boone" -> "Boone" [] OTHER -> s
ToUpperCase(s) ==
    CASE s \in {"ames", "Ames"} -> "AMES"
      [] s = "Boone" -> "BOONE"
      [] s = "Cary" -> "CARY"
      [] s = "Zed" -> "ZED"
      [] OTHER -> s

\* findRowInSheet_(sheet, searchTerm, colNum): the 1-based row, or -1.
findRowInSheet_(sheet, searchTerm) ==
    LET searchTermUpper == ToUpperCase(searchTerm)
        hits == {i \in 1..Len(sheet) :
                    /\ sheet[i].muni # ""
                    /\ ToUpperCase(TrimString(sheet[i].muni)) = searchTermUpper}
    IN  IF hits = {} THEN -1
        ELSE CHOOSE i \in hits : \A j \in hits : i <= j

\* richTextValue.getText().trim() === ""
IsBlank(text) == \A i \in 1..Len(text) : IsWhitespace(text[i])

(***************************************************************************)
(* fillFormattedSections: one run, the SECTIONS.forEach loop one section   *)
(* per round (call the extractor, then place what it returned).            *)
(***************************************************************************)
\* SECTIONS.forEach(s => templateSheet.getRange(s.targetA1).clearContent())
ClearAll(c) == [t \in Targets |-> Null]

\* Lines 86-133: the run up to the extraction step.  The template sheet and
\* the Rolodex tab are there or not, and a host call (openById, getRange,
\* ...) may throw, which the catch of line 149 reports.
FillStart ==
    /\ fpc = "idle"
    /\ \E templateSheetFound \in BOOLEAN, rolodexTabFound \in BOOLEAN,
          hostThrows \in BOOLEAN :
         LET muni == TrimString(muniCell)
             muniRow == findRowInSheet_(Rolodex, muni)
             richTextValue == Rolodex[muniRow].richText
         IN  IF ~templateSheetFound \/ muni = "" \/ (~hostThrows /\ ~rolodexTabFound)
             THEN /\ outcome' = "returned"
                  /\ secIdx' = 0
                  /\ processed' = <<>>
                  /\ UNCHANGED <<cells, fpc, richText>>
             ELSE IF hostThrows
             THEN /\ outcome' = "caught"
                  /\ secIdx' = 0
                  /\ processed' = <<>>
                  /\ UNCHANGED <<cells, fpc, richText>>
             ELSE IF muniRow = -1 \/ IsBlank(richTextValue.text)
             THEN /\ cells' = ClearAll(cells)
                  /\ outcome' = "cleared"
                  /\ secIdx' = 0
                  /\ processed' = <<>>
                  /\ UNCHANGED <<fpc, richText>>
             ELSE /\ richText' = richTextValue
                  /\ fpc' = "loop"
                  /\ secIdx' = 1
                  /\ processed' = <<>>
                  /\ outcome' = "running"
                  /\ UNCHANGED cells
    /\ cellsBefore' = cells
    /\ UNCHANGED <<startRe, stopRe, pc, startIdx, endIdx, result, calls, muniCell>>
    /\ UNCHANGED scriptVars

\* Line 136: extractRichTextSection_(richTextValue, sec.start, sec.stop)
FillExtract ==
    /\ fpc = "loop"
    /\ secIdx <= Len(SECTIONS)
    /\ startRe' = SECTIONS[secIdx].start
    /\ stopRe' = SECTIONS[secIdx].stop
    /\ pc' = "call"
    /\ fpc' = "extracting"
    /\ UNCHANGED <<richText, startIdx, endIdx, result, calls>>
    /\ UNCHANGED <<muniCell, cells, secIdx, processed, outcome, cellsBefore>>
    /\ UNCHANGED scriptVars

\* Place with a slip: the cell is left as it is when nothing was extracted.
Place_KeepOnAbsent(c, sec, extractedRichText) ==
    IF extractedRichText # Null
    THEN [c EXCEPT ![sec.targetA1] = extractedRichText]
    ELSE c

\* Lines 137-145: the destination cell gets the extracted rich text, or is
\* cleared when the extractor returned null.
Place(c, sec, extractedRichText) ==
    IF extractedRichText # Null
    THEN [c EXCEPT ![sec.targetA1] = extractedRichText]
    ELSE [c EXCEPT ![sec.targetA1] = Null]

\* Lines 137-145 and 149-152: the extractor has returned; the write to the
\* destination succeeds, or the host throws and the catch ends the run.
FillPlace ==
    /\ fpc = "extracting"
    /\ pc = "ret"
    /\ \E hostThrows \in BOOLEAN :
         IF hostThrows
         THEN /\ fpc' = "idle"
              /\ outcome' = "caught"
              /\ UNCHANGED <<cells, secIdx, processed>>
         ELSE /\ cells' = Place(cells, SECTIONS[secIdx], result)
              /\ processed' = Append(processed,
                                [name |-> SECTIONS[secIdx].name, extracted |-> result])
              /\ secIdx' = secIdx + 1
              /\ fpc' = "loop"
              /\ UNCHANGED outcome
    /\ UNCHANGED <<extractVars, scriptVars>>
    /\ UNCHANGED <<muniCell, cellsBefore>>

\* Line 148: the loop is over, the run ends.
FillEnd ==
    /\ fpc = "loop"
    /\ secIdx > Len(SECTIONS)
    /\ fpc' = "idle"
    /\ outcome' = "finished"
    /\ UNCHANGED <<extractVars, scriptVars>>
    /\ UNCHANGED <<muniCell, cells, secIdx, processed, cellsBefore>>

\* The user selects a municipality in the template sheet.
SelectMuni ==
    /\ fpc = "idle"
    /\ \E v \in MuniValues : muniCell' = v
    /\ UNCHANGED <<extractVars, scriptVars>>
    /\ UNCHANGED <<cells, fpc, secIdx, processed, outcome, cellsBefore>>

(***************************************************************************)
(* The inputs of the extractor: every text over Alphabet up to a length,   *)
(* style runs as getRuns() gives them (inside the text, non-empty, sorted  *)
(* and non-overlapping), and marker patterns of the shape the SECTIONS     *)
(* table uses: literals with \s* between them, the stop pattern of one     *)
(* section sharing characters with its start pattern.                      *)
(***************************************************************************)
RECURSIVE SeqsUpTo(_, _)
SeqsUpTo(S, n) ==
    IF n = 0 THEN {<<>>}
    ELSE LET shorter == SeqsUpTo(S, n - 1)
         IN  shorter \cup {Append(t, c) : t \in {u \in shorter : Len(u) = n - 1}, c \in S}

\* The run lists over a text of length n with at most m runs, the first run
\* starting at lo or later.
RECURSIVE RunLists(_, _, _)
RunLists(lo, n, m) ==
    IF m = 0 THEN {<<>>}
    ELSE {<<>>} \cup UNION {
            {<<[start |-> a, end |-> b, style |-> st, link |-> ln, obj |-> 1]>> \o rest :
                 rest \in RunLists(b, n, m - 1)} :
            a \in lo..(n - 1), b \in (lo + 1)..n, st \in Styles, ln \in Links }

WellFormedRuns(rt) ==
    /\ \A k \in 1..Len(rt.runs) :
          /\ 0 <= rt.runs[k].start
          /\ rt.runs[k].start < rt.runs[k].end
          /\ rt.runs[k].end <= Len(rt.text)
    /\ \A k \in 1..(Len(rt.runs) - 1) : rt.runs[k].end <= rt.runs[k + 1].start

StartPatterns == {<<"a">>, <<"a", SStar, "b">>}
StopPatterns  == {<<"b">>, <<"b", SStar, "a">>}

\* One run over the whole text, as a cell with uniform formatting has.
WholeRun(t) ==
    IF Len(t) = 0 THEN <<>>
    ELSE <<[start |-> 0, end |-> Len(t), style |-> "bold", link |-> NoLink, obj |-> 1]>>

Sources ==
    {[obj |-> 1, text |-> t, runs |-> WholeRun(t)] : t \in SeqsUpTo(Alphabet, MaxLen)} \cup
    {rt \in [obj : {1}, text : SeqsUpTo(Alphabet, MaxRunLen),
             runs : RunLists(0, MaxRunLen, MaxRuns)] : WellFormedRuns(rt)}

(***************************************************************************)
(* The other scripts at rest: their state where they do not run.           *)
(***************************************************************************)
NoCall == [version |-> 1, url |-> "", maxWidth |-> 0]
NoImage == [height |-> 0, width |-> 0]
MeasureOff ==
    /\ mpc = "off"
    /\ margs = NoCall
    /\ tempDoc = Null
    /\ docs = <<>>
    /\ image = NoImage
    /\ final = NoImage
    /\ rowHeight = 21
    /\ targetCell = <<>>
    /\ thrown = Null
    /\ escaped = FALSE
    /\ trashFailed = {}
StampOff ==
    /\ tsCells = <<>>
    /\ clock = 0
    /\ edit = Null
    /\ pending = FALSE
    /\ tsBefore = <<>>
TriggersOff ==
    /\ triggers = {}
    /\ nextId = 1
    /\ lastOp = "none"
    /\ uiAlert = ""
HandlerOff ==
    /\ ev = Null
    /\ hpc = "off"
    /\ hIdx = 0
    /\ hEnd = "none"
    /\ hBefore = <<>>

\* The extractor on its own, called on each input.
Init ==
    /\ richText \in Sources
    /\ startRe \in StartPatterns
    /\ stopRe \in StopPatterns
    /\ pc = "call"
    /\ startIdx = 0
    /\ endIdx = 0
    /\ result = Null
    /\ calls = 1
    /\ muniCell = ""
    /\ cells = [t \in Targets |-> Null]
    /\ fpc = "off"
    /\ secIdx = 0
    /\ processed = <<>>
    /\ outcome = "none"
    /\ cellsBefore = [t \in Targets |-> Null]
    /\ MeasureOff /\ StampOff /\ TriggersOff /\ HandlerOff

\* The harness of the idempotence property: the extractor is called again on
\* the value it returned, with the same patterns.
CallAgain ==
    /\ pc = "ret"
    /\ calls = 1
    /\ result # Null
    /\ richText' = result[1]
    /\ pc' = "call"
    /\ calls' = 2
    /\ startIdx' = 0
    /\ endIdx' = 0
    /\ result' = Null
    /\ UNCHANGED <<startRe, stopRe>>
    /\ UNCHANGED <<fillVars, scriptVars>>

Next ==
    \/ MatchMarkers
    \/ TrimLeading
    \/ TrimTrailing
    \/ BuildResult
    \/ CallAgain

Spec == Init /\ [][Next]_vars

(***************************************************************************)
(* The Rolodex script run from its menu: the user selects municipalities   *)
(* and runs "Fill Instructions from Rolodex"; the template starts empty.   *)
(***************************************************************************)
InitFill ==
    /\ richText = [obj |-> 1, text |-> <<>>, runs |-> <<>>]
    /\ startRe = <<>>
    /\ stopRe = <<>>
    /\ pc = "ret"
    /\ startIdx = 0
    /\ endIdx = 0
    /\ result = Null
    /\ calls = 1
    /\ muniCell = ""
    /\ cells = [t \in Targets |-> Null]
    /\ fpc = "idle"
    /\ secIdx = 0
    /\ processed = <<>>
    /\ outcome = "none"
    /\ cellsBefore = [t \in Targets |-> Null]
    /\ MeasureOff /\ StampOff /\ TriggersOff /\ HandlerOff

NextFill ==
    \/ SelectMuni
    \/ FillStart
    \/ FillExtract
    \/ MatchMarkers
    \/ TrimLeading
    \/ TrimTrailing
    \/ BuildResult
    \/ FillPlace
    \/ FillEnd

SpecFill == InitFill /\ [][NextFill]_vars

(***************************************************************************)
(* What the properties speak of, stated from the contract and not from the *)
(* code: the first match of the start pattern by its position, the first   *)
(* match of the stop pattern in the remainder, the span between the two    *)
(* and that span without its leading and trailing whitespace.              *)
(***************************************************************************)
Inked(s) == {i \in 1..Len(s) : ~IsWhitespace(s[i])}
First(S) == CHOOSE i \in S : \A j \in S : i <= j
Last(S) == CHOOSE i \in S : \A j \in S : i >= j

\* For text t, start pattern sre and stop pattern pre:
\*   hit      the first match of sre in t (Null: none)
\*   stop     the first match of pre in t after hit (Null: none)
\*   from, to the span: from the end of hit to the beginning of stop, or to
\*            the end of t when stop is Null
\*   span     the text of the span
\*   start, end   the span without its leading and trailing whitespace, as
\*            positions of t (start = end: nothing is left)
\*   trimmed  the text of [start, end)
SectionOf(t, sre, pre) ==
    LET hit  == Match(t, sre)
        from == IF hit = Null THEN Len(t) ELSE hit[1].index + Len(hit[1].str)
        stop == IF hit = Null THEN Null ELSE Match(Slice(t, from), pre)
        to   == IF stop = Null THEN Len(t) ELSE from + stop[1].index
        span == Substring(t, from, to)
        ink  == Inked(span)
        s    == IF ink = {} THEN from ELSE from + First(ink) - 1
        e    == IF ink = {} THEN from ELSE from + Last(ink)
    IN  [hit |-> hit, stop |-> stop, from |-> from, to |-> to, span |-> span,
         start |-> s, end |-> e, trimmed |-> Substring(t, s, e)]

\* The same for the call at hand.
Section == SectionOf(richText.text, startRe, stopRe)

Returned == pc = "ret"
Extracted == result[1]

\* The returned value is the trimmed span sec: absent when nothing is left.
ReturnsTrimmed(sec) ==
    IF sec.trimmed = <<>> THEN result = Null
    ELSE result # Null /\ Extracted.text = sec.trimmed

(***************************************************************************)
(* C1: when the start pattern matches and the stop pattern matches in the  *)
(* text after the start match, the text of the result is the source text   *)
(* between the end of the first start match and the beginning of the first *)
(* stop match, without its leading and trailing whitespace and otherwise   *)
(* unchanged (the absent result of an all-whitespace span is C4's).        *)
(***************************************************************************)
C1_TextBetweenMarkers ==
    Returned =>
        LET sec == Section
        IN  (sec.hit # Null /\ sec.stop # Null) => ReturnsTrimmed(sec)

\* Both markers found, whitespace trimmed at both ends, whitespace kept inside.
C1_Witness ==
    /\ Returned /\ calls = 1 /\ result # Null
    /\ LET sec == Section
       IN  /\ sec.hit # Null /\ sec.stop # Null
           /\ sec.from < sec.start /\ sec.end < sec.to
           /\ \E i \in 1..Len(Extracted.text) : IsWhitespace(Extracted.text[i])

(***************************************************************************)
(* C2: when the start pattern has no match in the source text the result   *)
(* is absent, whatever the stop pattern and the style runs.                *)
(***************************************************************************)
C2_NoStartIsAbsent ==
    (Returned /\ Match(richText.text, startRe) = Null) => result = Null

\* No start match in a text with a run and in which the stop pattern matches.
C2_Witness ==
    /\ Returned /\ calls = 1 /\ result = Null
    /\ Match(richText.text, startRe) = Null
    /\ Match(richText.text, stopRe) # Null
    /\ Len(richText.runs) > 0

(***************************************************************************)
(* C3: when the start pattern matches and the stop pattern has no match in *)
(* the remainder, the text of the result is the source text from just      *)
(* after the start match to the end of the text, trimmed; the call returns *)
(* (a value or absent) and raises nothing.                                 *)
(***************************************************************************)
C3_NoStopRunsToEnd ==
    Returned =>
        LET sec == Section
        IN  (sec.hit # Null /\ sec.stop = Null) =>
                /\ sec.to = Len(richText.text)
                /\ ReturnsTrimmed(sec)

\* No stop marker: the section reaches the end of the text, less the
\* whitespace the text ends with.
C3_Witness ==
    /\ Returned /\ calls = 1 /\ result # Null
    /\ LET sec == Section
       IN  /\ sec.hit # Null /\ sec.stop = Null
           /\ sec.end < Len(richText.text)
    /\ Len(Extracted.text) > 1

(***************************************************************************)
(* C4: an empty or all-whitespace span gives absent, never a rich text     *)
(* with an empty text, and the trimming loops keep startIdx <= endIdx.     *)
(***************************************************************************)
C4_BlankSpanIsAbsent ==
    /\ pc \in {"trimStart", "trimEnd", "build"} => startIdx <= endIdx
    /\ Returned =>
          LET sec == Section
          IN  /\ (sec.hit # Null /\ sec.trimmed = <<>>) => result = Null
              /\ result # Null => Len(Extracted.text) > 0

\* A span of whitespace only, which the first loop has walked to its end.
C4_Witness ==
    /\ Returned /\ calls = 1 /\ result = Null
    /\ LET sec == Section
       IN  /\ sec.hit # Null /\ sec.stop # Null
           /\ Len(sec.span) > 1 /\ sec.trimmed = <<>>
           /\ startIdx = endIdx /\ startIdx = sec.to

\* Whether a run lies fully inside [s, e), and whether it shares at least
\* one character with it.
Inside(run, s, e) == s <= run.start /\ run.end <= e
Meets(run, s, e) == Max(run.start, s) < Min(run.end, e)
SameFormat(r, run) == r.style = run.style /\ r.link = run.link

(***************************************************************************)
(* C5: every source run fully inside the trimmed section has a run in the  *)
(* result with the bounds (run.start - startIdx, run.end - startIdx), the  *)
(* same style and the same link.                                           *)
(***************************************************************************)
C5_InsideRunsKept ==
    (Returned /\ result # Null) =>
        LET sec == Section
        IN  \A k \in 1..Len(richText.runs) :
                Inside(richText.runs[k], sec.start, sec.end) =>
                    \E j \in 1..Len(Extracted.runs) :
                        /\ Extracted.runs[j].start = richText.runs[k].start - sec.start
                        /\ Extracted.runs[j].end = richText.runs[k].end - sec.start
                        /\ SameFormat(Extracted.runs[j], richText.runs[k])

\* A linked run strictly inside a section that begins after position 0.
C5_Witness ==
    /\ Returned /\ calls = 1 /\ result # Null
    /\ LET sec == Section
       IN  \E k \in 1..Len(richText.runs) :
              /\ Inside(richText.runs[k], sec.start, sec.end)
              /\ richText.runs[k].link # NoLink
              /\ richText.runs[k].start > sec.start
              /\ \E j \in 1..Len(Extracted.runs) :
                    Extracted.runs[j].start = richText.runs[k].start - sec.start

(***************************************************************************)
(* C6: a source run gives exactly one run of the result when it meets the  *)
(* trimmed section and none when it does not; that run covers exactly the  *)
(* part of the source run inside the section, moved by -startIdx, so a run *)
(* across a boundary of the section is clipped, not dropped or repeated.   *)
(***************************************************************************)
C6_RunsClipped ==
    (Returned /\ result # Null) =>
        LET sec == Section
            met == {k \in 1..Len(richText.runs) :
                        Meets(richText.runs[k], sec.start, sec.end)}
            Image(k) == {j \in 1..Len(Extracted.runs) :
                /\ Extracted.runs[j].start =
                       Max(richText.runs[k].start, sec.start) - sec.start
                /\ Extracted.runs[j].end =
                       Min(richText.runs[k].end, sec.end) - sec.start
                /\ SameFormat(Extracted.runs[j], richText.runs[k])}
        IN  /\ Len(Extracted.runs) = Cardinality(met)
            /\ \A k \in met : Cardinality(Image(k)) = 1
            /\ \A k1 \in met, k2 \in met : k1 # k2 => Image(k1) \cap Image(k2) = {}

\* One run across the start of the section, clipped, and one that misses it.
C6_Witness ==
    /\ Returned /\ calls = 1 /\ result # Null
    /\ Len(richText.runs) = 2 /\ Len(Extracted.runs) = 1
    /\ LET sec == Section
       IN  /\ richText.runs[1].start < sec.start
           /\ richText.runs[1].end > sec.start
           /\ richText.runs[2].start >= sec.end
           /\ Extracted.runs[1].start = 0
           /\ Extracted.runs[1].end = richText.runs[1].end - sec.start

(***************************************************************************)
(* C7: every run of a returned rich text has 0 <= start < end <= the       *)
(* length of its text, and the runs of the result are sorted and do not    *)
(* overlap (the source runs being so).                                     *)
(***************************************************************************)
C7_ResultRunsWellFormed ==
    (Returned /\ result # Null) =>
        (WellFormedRuns(richText) => WellFormedRuns(Extracted))

\* Two runs in the result, the first clipped at the start of the section.
C7_Witness ==
    /\ Returned /\ calls = 1 /\ result # Null
    /\ Len(Extracted.runs) = 2
    /\ richText.runs[1].start < Section.start
    /\ Extracted.runs[1].start = 0
    /\ Extracted.runs[2].end = Len(Extracted.text)

(***************************************************************************)
(* C9: a call leaves its source unchanged (text and runs, whether it       *)
(* returns a value or absent), and the value it returns is an object of    *)
(* its own whose runs are its own: none is a run of the source.            *)
(***************************************************************************)
OwnRuns(rt) == \A j \in 1..Len(rt.runs) : rt.runs[j].obj = rt.obj
C9_Step ==
    /\ calls' = calls => richText' = richText
    /\ (pc' = "ret" /\ result' # Null) =>
          /\ result'[1].obj # richText'.obj
          /\ OwnRuns(result'[1])
          /\ OwnRuns(richText')
C9_SourceUnchanged == [][C9_Step]_vars

\* A call on a source with runs has returned a value with runs.
C9_Witness ==
    /\ Returned /\ calls = 1 /\ result # Null
    /\ Len(richText.runs) > 0 /\ Len(Extracted.runs) > 0

(***************************************************************************)
(* C10, as amended: the second call, on the text the first call returned   *)
(* and with the same patterns, returns absent whenever the start pattern   *)
(* has no match in that text; when the source held another start marker    *)
(* before the stop marker, the returned text does contain the start marker *)
(* and the second call returns the (shorter) section after it.             *)
(***************************************************************************)
C10_SecondCall ==
    (Returned /\ calls = 2) =>
        LET sec == Section
        IN  /\ sec.hit = Null => result = Null
            /\ sec.hit # Null => ReturnsTrimmed(sec)
            /\ result # Null => Len(Extracted.text) < Len(richText.text)

\* The second call finds no start marker in the first result: absent.
C10_Witness ==
    /\ Returned /\ calls = 2 /\ result = Null
    /\ Match(richText.text, startRe) = Null
    /\ Len(richText.text) > 1

\* C10 as stated: the text a call returns never contains the start marker,
\* so that a second call on it always returns absent.
C10_NeverSelfMatches ==
    /\ (Returned /\ calls = 1 /\ result # Null) => Match(Extracted.text, startRe) = Null
    /\ (Returned /\ calls = 2) => result = Null

(***************************************************************************)
(* fillFormattedSections: what a run leaves in the destination cells.      *)
(***************************************************************************)
\* The sections processed so far are the first ones of the table, in its
\* order, each once, and each one's cell holds what the extractor returned
\* for it: absent (the cell cleared) or the trimmed span of its markers.
PlacedInOrder ==
    /\ Len(processed) <= Len(SECTIONS)
    /\ \A k \in 1..Len(processed) :
          LET sec == SECTIONS[k]
              got == cells[sec.targetA1]
              want == SectionOf(richText.text, sec.start, sec.stop)
          IN  /\ processed[k].name = sec.name
              /\ got = processed[k].extracted
              /\ IF want.trimmed = <<>> THEN got = Null
                 ELSE got # Null /\ got[1].text = want.trimmed
AllSixPlaced == Len(processed) = Len(SECTIONS) /\ PlacedInOrder

RunOver == fpc = "idle" /\ secIdx >= 1

Occurrences(t, re) == {p \in 0..Len(t) : MatchHere(re, 1, t, p) # -1}
EndOfMatch(t, re, p) == MatchHere(re, 1, t, p)

\* The start pattern matches, the stop pattern matches somewhere, and every
\* match of the stop pattern ends before the first start match begins.
StopOnlyBeforeStart ==
    LET t == richText.text
        hit == Match(t, startRe)
        stops == Occurrences(t, stopRe)
    IN  /\ hit # Null
        /\ stops # {}
        /\ \A p \in stops : EndOfMatch(t, stopRe, p) <= hit[1].index

(***************************************************************************)
(* C11, as amended: when every occurrence of the stop marker lies before   *)
(* the first start marker, the stop marker is not found in the text after  *)
(* the start marker and the call returns what it returns without a stop    *)
(* marker: the text from just after the start marker to the end of the     *)
(* source, trimmed, and absent only when nothing but whitespace follows    *)
(* the start marker.                                                       *)
(***************************************************************************)
C11_MisorderedRunsToEnd ==
    (Returned /\ StopOnlyBeforeStart) =>
        LET sec == Section
        IN  /\ sec.stop = Null
            /\ sec.to = Len(richText.text)
            /\ ReturnsTrimmed(sec)
            /\ result = Null <=> IsBlank(Slice(richText.text, sec.from))

\* The single stop marker precedes the start marker and a section is returned.
C11_Witness ==
    /\ Returned /\ calls = 1 /\ result # Null
    /\ StopOnlyBeforeStart
    /\ Cardinality(Occurrences(richText.text, stopRe)) = 1
    /\ Extracted.text = Section.trimmed

\* C11 as stated: mis-ordered markers give absent.
C11_MisorderedIsAbsent ==
    (/\ Returned
     /\ StopOnlyBeforeStart
     /\ Cardinality(Occurrences(richText.text, stopRe)) = 1) => result = Null

(***************************************************************************)
(* C14: the step that computes the indices sets startIdx to the position   *)
(* just after the first match of the start pattern and, when the stop      *)
(* pattern matches in the remainder, endIdx to the position of its first   *)
(* match there; indexOf of the matched string finds the very occurrence    *)
(* the pattern matched, never an earlier one.                              *)
(***************************************************************************)
C14_Step ==
    (pc = "call" /\ pc' = "trimStart") =>
        LET t == richText.text
            sec == Section
        IN  /\ sec.hit # Null
            /\ IndexOf(t, sec.hit[1].str) = sec.hit[1].index
            /\ startIdx' = sec.hit[1].index + Len(sec.hit[1].str)
            /\ IF sec.stop # Null
               THEN /\ IndexOf(Slice(t, sec.from), sec.stop[1].str) = sec.stop[1].index
                    /\ endIdx' = startIdx' + sec.stop[1].index
               ELSE endIdx' = Len(t)
C14_IndicesAtMatches == [][C14_Step]_vars

\* The matched start string occurs again later in the text and the matched
\* stop string occurs before the start marker as well as after it.
C14_Witness ==
    /\ Returned /\ calls = 1 /\ result # Null
    /\ LET t == richText.text
           sec == Section
       IN  /\ sec.hit # Null /\ sec.stop # Null
           /\ IndexOf(t, sec.stop[1].str) < sec.hit[1].index
           /\ IndexOf(Slice(t, sec.from), sec.hit[1].str) # -1
           /\ Len(sec.hit[1].str) > 1

(***************************************************************************)
(* The image script: measureAndSetRowHeight, one action per statement      *)
(* group.  Every call of a host service either returns or throws.  The     *)
(* file holds two revisions of the function; version 2 scales the image to *)
(* MAX_WIDTH.                                                              *)
(***************************************************************************)
\* most documents the Drive comes to hold
MaxDocs == 3

Versions == {1, 2}
Urls == {"http://a", "http://b"}
\* MAX_WIDTH: "" as shipped, which the comparison imageWidth > MAX_WIDTH
\* reads as 0, and a configured width.
MaxWidths == {0, 30}
ImageHeights == {10, 33}
ImageWidths == {20, 40}

\* The statement at hand throws: the catch block is next.
Throw(message) ==
    /\ thrown' = Some(message)
    /\ mpc' = "catch"

\* The call itself: the locals are fresh.
MeasureCall ==
    /\ mpc = "idle"
    /\ Len(docs) < MaxDocs
    /\ \E v \in Versions, u \in Urls, w \in MaxWidths :
          margs' = [version |-> v, url |-> u, maxWidth |-> w]
    /\ tempDoc' = Null
    /\ thrown' = Null
    /\ escaped' = FALSE
    /\ mpc' = "fetch"
    /\ UNCHANGED <<docs, image, final, rowHeight, targetCell, trashFailed>>
    /\ UNCHANGED <<extractVars, fillVars, stampVars, triggerVars, handlerVars>>

\* const blob = UrlFetchApp.fetch(url).getBlob();
FetchBlob ==
    /\ mpc = "fetch"
    /\ \E hostThrows \in BOOLEAN :
          IF hostThrows THEN Throw("fetch")
          ELSE mpc' = "create" /\ UNCHANGED thrown
    /\ UNCHANGED <<margs, tempDoc, docs, image, final, rowHeight, targetCell,
                   escaped, trashFailed>>
    /\ UNCHANGED <<extractVars, fillVars, stampVars, triggerVars, handlerVars>>

\* tempDoc = DocumentApp.create(docName);
CreateDoc ==
    /\ mpc = "create"
    /\ \E hostThrows \in BOOLEAN :
          IF hostThrows
          THEN Throw("create") /\ UNCHANGED <<tempDoc, docs>>
          ELSE /\ docs' = Append(docs, "live")
               /\ tempDoc' = Some(Len(docs) + 1)
               /\ mpc' = "measure"
               /\ UNCHANGED thrown
    /\ UNCHANGED <<margs, image, final, rowHeight, targetCell, escaped, trashFailed>>
    /\ UNCHANGED <<extractVars, fillVars, stampVars, triggerVars, handlerVars>>

\* body.appendImage(blob), image.getHeight(), image.getWidth().  Version 1
\* uses the measured dimensions as they are.
MeasureImage ==
    /\ mpc = "measure"
    /\ \E hostThrows \in BOOLEAN, h \in ImageHeights, w \in ImageWidths :
          IF hostThrows
          THEN Throw("appendImage") /\ UNCHANGED <<image, final>>
          ELSE /\ image' = [height |-> h, width |-> w]
               /\ IF margs.version = 1
                  THEN final' = image' /\ mpc' = "setHeight"
                  ELSE final' = final /\ mpc' = "scale"
               /\ UNCHANGED thrown
    /\ UNCHANGED <<margs, tempDoc, docs, rowHeight, targetCell, escaped, trashFailed>>
    /\ UNCHANGED <<extractVars, fillVars, stampVars, triggerVars, handlerVars>>

\* Version 2, step 3: an image wider than MAX_WIDTH is to be scaled down, but
\* finalWidth = maxWidth reads a name that is not defined (ReferenceError).
ScaleImage ==
    /\ mpc = "scale"
    /\ IF image.width > margs.maxWidth
       THEN Throw("maxWidth is not defined") /\ UNCHANGED final
       ELSE final' = image /\ mpc' = "setHeight" /\ UNCHANGED thrown
    /\ UNCHANGED <<margs, tempDoc, docs, image, rowHeight, targetCell, escaped,
                   trashFailed>>
    /\ UNCHANGED <<extractVars, fillVars, stampVars, triggerVars, handlerVars>>

\* reportSheet.setRowHeight(targetRow, Math.round(finalHeight) + 5); the
\* heights are whole numbers, which Math.round leaves as they are.
SetRowHeight ==
    /\ mpc = "setHeight"
    /\ \E hostThrows \in BOOLEAN :
          IF hostThrows THEN Throw("setRowHeight") /\ UNCHANGED rowHeight
          ELSE /\ rowHeight' = final.height + 5
               /\ mpc' = "setFormula"
               /\ UNCHANGED thrown
    /\ UNCHANGED <<margs, tempDoc, docs, image, final, targetCell, escaped,
                   trashFailed>>
    /\ UNCHANGED <<extractVars, fillVars, stampVars, triggerVars, handlerVars>>

\* targetRange.setFormula(`=IMAGE("${url}", 4, ${height}, ${width})`): the
\* end of the try block.
SetFormula ==
    /\ mpc = "setFormula"
    /\ \E hostThrows \in BOOLEAN :
          IF hostThrows THEN Throw("setFormula") /\ UNCHANGED targetCell
          ELSE /\ targetCell' = <<"=IMAGE", margs.url, 4, final.height, final.width>>
               /\ mpc' = "finally"
               /\ UNCHANGED thrown
    /\ UNCHANGED <<margs, tempDoc, docs, image, final, rowHeight, escaped,
                   trashFailed>>
    /\ UNCHANGED <<extractVars, fillVars, stampVars, triggerVars, handlerVars>>

\* CatchError with a slip: the cleanup stands at the end of the catch block
\* and not in a finally block, so that a throw of setValue passes it by.
CatchError_NoFinally ==
    /\ mpc = "catch"
    /\ \E hostThrows \in BOOLEAN :
          IF hostThrows
          THEN /\ thrown' = Null
               /\ escaped' = TRUE
               /\ mpc' = "idle"
               /\ UNCHANGED targetCell
          ELSE /\ targetCell' = <<"Error measuring image: ", thrown[1]>>
               /\ thrown' = Null
               /\ mpc' = "finally"
               /\ UNCHANGED escaped
    /\ UNCHANGED <<margs, tempDoc, docs, image, final, rowHeight, trashFailed>>
    /\ UNCHANGED <<extractVars, fillVars, stampVars, triggerVars, handlerVars>>

\* catch (error): the error is written to the target cell; when that write
\* throws, its exception leaves the function once the finally block has run.
CatchError ==
    /\ mpc = "catch"
    /\ \E hostThrows \in BOOLEAN :
          IF hostThrows
          THEN /\ thrown' = Some("setValue")
               /\ UNCHANGED targetCell
          ELSE /\ targetCell' = <<"Error measuring image: ", thrown[1]>>
               /\ thrown' = Null
    /\ mpc' = "finally"
    /\ UNCHANGED <<margs, tempDoc, docs, image, final, rowHeight, escaped,
                   trashFailed>>
    /\ UNCHANGED <<extractVars, fillVars, stampVars, triggerVars, handlerVars>>

\* finally: if (tempDoc) try { ...setTrashed(true) } catch (cleanupError)
\* { log }.  Then the call ends, by the exception on its way if there is one.
Finally ==
    /\ mpc = "finally"
    /\ IF tempDoc # Null
       THEN \E hostThrows \in BOOLEAN :
              IF hostThrows
              THEN /\ trashFailed' = trashFailed \cup {tempDoc[1]}
                   /\ UNCHANGED docs
              ELSE /\ docs' = [docs EXCEPT ![tempDoc[1]] = "trashed"]
                   /\ UNCHANGED trashFailed
       ELSE UNCHANGED <<docs, trashFailed>>
    /\ escaped' = (thrown # Null)
    /\ thrown' = Null
    /\ mpc' = "idle"
    /\ UNCHANGED <<margs, tempDoc, image, final, rowHeight, targetCell>>
    /\ UNCHANGED <<extractVars, fillVars, stampVars, triggerVars, handlerVars>>

\* The extractor and the Rolodex script at rest.
ExtractOff ==
    /\ richText = [obj |-> 1, text |-> <<>>, runs |-> <<>>]
    /\ startRe = <<>>
    /\ stopRe = <<>>
    /\ pc = "ret"
    /\ startIdx = 0
    /\ endIdx = 0
    /\ result = Null
    /\ calls = 1
FillOff ==
    /\ muniCell = ""
    /\ cells = [t \in Targets |-> Null]
    /\ fpc = "off"
    /\ secIdx = 0
    /\ processed = <<>>
    /\ outcome = "none"
    /\ cellsBefore = [t \in Targets |-> Null]

InitMeasure ==
    /\ ExtractOff /\ FillOff /\ StampOff /\ TriggersOff /\ HandlerOff
    /\ mpc = "idle"
    /\ margs = NoCall
    /\ tempDoc = Null
    /\ docs = <<>>
    /\ image = NoImage
    /\ final = NoImage
    /\ rowHeight = 21
    /\ targetCell = <<>>
    /\ thrown = Null
    /\ escaped = FALSE
    /\ trashFailed = {}

NextMeasure ==
    \/ MeasureCall
    \/ FetchBlob
    \/ CreateDoc
    \/ MeasureImage
    \/ ScaleImage
    \/ SetRowHeight
    \/ SetFormula
    \/ CatchError
    \/ Finally

SpecMeasure == InitMeasure /\ [][NextMeasure]_vars

\* A call is over; the documents that are not trashed.
CallOver == mpc = "idle"
LiveDocs == {d \in 1..Len(docs) : docs[d] = "live"}

MaxClock == 3

\* const TIMESTAMP_CONFIG = { "A1": "A2" };
TIMESTAMP_CONFIG == [a1 \in {"A1"} |-> "A2"]

\* The cells of the sheet and the ranges the user edits: single cells and a
\* range of two cells (a paste).
SheetCells == {"A1", "A2", "B1"}
CellsOf(a1) == IF a1 = "A1:B1" THEN {"A1", "B1"} ELSE {a1}
EditRanges == SheetCells \cup {"A1:B1"}
EditValues == {"", "Yes", "No", "yes"}

\* e.value and e.oldValue are undefined for an empty cell and for a range of
\* more than one cell.
Undefined == "undefined"
EventValue(a1, v) == IF v = "" \/ Cardinality(CellsOf(a1)) > 1 THEN Undefined ELSE v

\* Utilities.formatDate(new Date(), TIMEZONE, "M/d/yyyy HH:mm:ss"): the time
\* to the second, the half seconds dropped.
FormatDate(t) == "9/10/2025 14:26:" \o ToString(30 + (t \div 2))

\* The user edits a cell or pastes into a range; the edit event is raised.
UserEdit ==
    /\ ~pending
    /\ \E a1 \in EditRanges, v \in EditValues :
          /\ tsCells' = [c \in SheetCells |-> IF c \in CellsOf(a1) THEN v ELSE tsCells[c]]
          /\ edit' = Some([a1 |-> a1,
                           value |-> EventValue(a1, v),
                           oldValue |-> IF Cardinality(CellsOf(a1)) > 1 THEN Undefined
                                        ELSE EventValue(a1, tsCells[a1])])
    /\ pending' = TRUE
    /\ tsBefore' = tsCells'
    /\ UNCHANGED clock
    /\ UNCHANGED <<extractVars, fillVars, measureVars, triggerVars, handlerVars>>

\* Time passes.
Tick ==
    /\ clock < MaxClock
    /\ clock' = clock + 1
    /\ UNCHANGED <<tsCells, edit, pending, tsBefore>>
    /\ UNCHANGED <<extractVars, fillVars, measureVars, triggerVars, handlerVars>>

\* onEdit with a slip: a change to "No" clears the timestamp whatever the
\* old value was.
onEdit_ClearOnAnyNo ==
    /\ pending
    /\ LET e == edit[1]
           editedCellA1 == e.a1
           newValue == e.value
       IN  IF editedCellA1 \notin DOMAIN TIMESTAMP_CONFIG
           THEN UNCHANGED tsCells
           ELSE LET targetCellA1 == TIMESTAMP_CONFIG[editedCellA1]
                IN  IF newValue = "Yes"
                    THEN tsCells' = [tsCells EXCEPT ![targetCellA1] = FormatDate(clock)]
                    ELSE IF newValue = "No"
                    THEN tsCells' = [tsCells EXCEPT ![targetCellA1] = ""]
                    ELSE UNCHANGED tsCells
    /\ pending' = FALSE
    /\ UNCHANGED <<clock, edit, tsBefore>>
    /\ UNCHANGED <<extractVars, fillVars, measureVars, triggerVars, handlerVars>>

\* function onEdit(e)
onEdit ==
    /\ pending
    /\ LET e == edit[1]
           editedCellA1 == e.a1
           newValue == e.value
           oldValue == e.oldValue
       IN  IF editedCellA1 \notin DOMAIN TIMESTAMP_CONFIG
           THEN UNCHANGED tsCells
           ELSE LET targetCellA1 == TIMESTAMP_CONFIG[editedCellA1]
                IN  IF newValue = "Yes"
                    THEN tsCells' = [tsCells EXCEPT ![targetCellA1] = FormatDate(clock)]
                    ELSE IF oldValue = "Yes" /\ newValue = "No"
                    THEN tsCells' = [tsCells EXCEPT ![targetCellA1] = ""]
                    ELSE UNCHANGED tsCells
    /\ pending' = FALSE
    /\ UNCHANGED <<clock, edit, tsBefore>>
    /\ UNCHANGED <<extractVars, fillVars, measureVars, triggerVars, handlerVars>>

InitStamp ==
    /\ ExtractOff /\ FillOff /\ MeasureOff /\ TriggersOff /\ HandlerOff
    /\ tsCells = [c \in SheetCells |-> ""]
    /\ clock = 0
    /\ edit = Null
    /\ pending = FALSE
    /\ tsBefore = [c \in SheetCells |-> ""]

NextStamp ==
    \/ UserEdit
    \/ Tick
    \/ onEdit

SpecStamp == InitStamp /\ [][NextStamp]_vars

\* The timestamp cells, and the kinds of edit the claim tells apart.
TimestampCells == {TIMESTAMP_CONFIG[a1] : a1 \in DOMAIN TIMESTAMP_CONFIG}
Configured(e) == e.a1 \in DOMAIN TIMESTAMP_CONFIG
ToYes(e) == Configured(e) /\ e.value = "Yes"
YesToNo(e) == Configured(e) /\ e.oldValue = "Yes" /\ e.value = "No"

(***************************************************************************)
(* C13: a run of onEdit for an edit of a configured dropdown cell to "Yes" *)
(* writes the current time, formatted, into the mapped timestamp cell; for *)
(* an edit from "Yes" to "No" it clears the mapped timestamp cell; for any *)
(* other edit it leaves every timestamp cell as it is.  No run changes a   *)
(* cell other than the mapped timestamp cell.                              *)
(***************************************************************************)
C13_Step ==
    (pending /\ ~pending') =>
        LET e == edit[1]
        IN  /\ ToYes(e) =>
                 tsCells'[TIMESTAMP_CONFIG[e.a1]] = FormatDate(clock)
            /\ YesToNo(e) => tsCells'[TIMESTAMP_CONFIG[e.a1]] = ""
            /\ (~ToYes(e) /\ ~YesToNo(e)) =>
                 \A c \in TimestampCells : tsCells'[c] = tsCells[c]
            /\ \A c \in SheetCells :
                 (~Configured(e) \/ c # TIMESTAMP_CONFIG[e.a1]) => tsCells'[c] = tsCells[c]
C13_TimestampOnYes == [][C13_Step]_vars

\* An edit from "Yes" to "No" has cleared the timestamp an earlier edit to
\* "Yes" had written, at a time later than 0.
C13_Witness ==
    /\ ~pending /\ edit # Null
    /\ YesToNo(edit[1])
    /\ tsBefore["A2"] = FormatDate(2)
    /\ tsCells["A2"] = ""

(***************************************************************************)
(* The triggers of the Rolodex script: enableMuniAuto and disableMuniAuto, *)
(* run from the menu, on a project that holds some triggers already.       *)
(***************************************************************************)
\* the ids of the triggers the project holds at first: 1..InitialTriggers
InitialTriggers == 3
\* the largest id of a trigger
MaxTriggerId == 6

Handlers == {"muniEditHandler", "handleEdit", "fillFormattedSections"}

\* ScriptApp.getProjectTriggers().forEach(t => { if (t.getHandlerFunction()
\* === "muniEditHandler") { ScriptApp.deleteTrigger(t); triggerDeleted = true; } })
DeleteMuniTriggers(trigs) ==
    [triggers |-> {t \in trigs : t.handler # "muniEditHandler"},
     triggerDeleted |-> \E t \in trigs : t.handler = "muniEditHandler"]

\* enableMuniAuto with a slip: the old triggers are not cleared first.
enableMuniAuto_NoDisable ==
    /\ nextId <= MaxTriggerId
    /\ triggers' = triggers \cup {[id |-> nextId, handler |-> "muniEditHandler"]}
    /\ nextId' = nextId + 1
    /\ uiAlert' = "Auto-update enabled."
    /\ lastOp' = "enable"
    /\ UNCHANGED <<extractVars, fillVars, measureVars, stampVars, handlerVars>>

\* function enableMuniAuto(): disableMuniAuto(), then the new trigger and
\* the alert.
enableMuniAuto ==
    /\ nextId <= MaxTriggerId
    /\ LET cleared == DeleteMuniTriggers(triggers)
       IN  triggers' = cleared.triggers \cup
                          {[id |-> nextId, handler |-> "muniEditHandler"]}
    /\ nextId' = nextId + 1
    /\ uiAlert' = "Auto-update enabled."
    /\ lastOp' = "enable"
    /\ UNCHANGED <<extractVars, fillVars, measureVars, stampVars, handlerVars>>

\* function disableMuniAuto(): the alert only when a trigger was deleted.
disableMuniAuto ==
    /\ LET cleared == DeleteMuniTriggers(triggers)
       IN  /\ triggers' = cleared.triggers
           /\ uiAlert' = IF cleared.triggerDeleted THEN "Auto-update disabled."
                          ELSE uiAlert
    /\ lastOp' = "disable"
    /\ UNCHANGED nextId
    /\ UNCHANGED <<extractVars, fillVars, measureVars, stampVars, handlerVars>>

\* The sets of triggers with the ids 1..n, each id used at most once.
TriggerSets(n) ==
    {ts \in SUBSET [id : 1..n, handler : Handlers] :
        \A t1 \in ts, t2 \in ts : t1.id = t2.id => t1 = t2}

InitTriggers ==
    /\ ExtractOff /\ FillOff /\ MeasureOff /\ StampOff /\ HandlerOff
    /\ triggers \in TriggerSets(InitialTriggers)
    /\ nextId = InitialTriggers + 1
    /\ lastOp = "none"
    /\ uiAlert = ""

NextTriggers ==
    \/ enableMuniAuto
    \/ disableMuniAuto

SpecTriggers == InitTriggers /\ [][NextTriggers]_vars

MuniTriggers(trigs) == {t \in trigs : t.handler = "muniEditHandler"}
OtherTriggers(trigs) == trigs \ MuniTriggers(trigs)

(***************************************************************************)
(* C15: after every call of enableMuniAuto or disableMuniAuto the project  *)
(* holds at most one trigger of muniEditHandler: exactly one after         *)
(* enableMuniAuto, none after disableMuniAuto; and no call deletes (or     *)
(* adds) a trigger of another handler.                                     *)
(***************************************************************************)
C15_Step ==
    /\ OtherTriggers(triggers') = OtherTriggers(triggers)
    /\ lastOp' # "none" => Cardinality(MuniTriggers(triggers')) <= 1
    /\ lastOp' = "enable" => Cardinality(MuniTriggers(triggers')) = 1
    /\ lastOp' = "disable" => MuniTriggers(triggers') = {}
C15_AtMostOneTrigger == [][C15_Step]_vars

\* enableMuniAuto has run at least twice, the last call replacing the
\* trigger of the one before, beside a trigger of another handler.
C15_Witness ==
    /\ lastOp = "enable"
    /\ MuniTriggers(triggers) = {[id |-> InitialTriggers + 2, handler |-> "muniEditHandler"]}
    /\ OtherTriggers(triggers) # {}
    /\ Cardinality(triggers) = 2

(***************************************************************************)
(* muniEditHandler: the installable trigger calls it for every edit of the *)
(* spreadsheet, one call at a time; a missing event is a run by hand.      *)
(***************************************************************************)
\* TEMPLATE_SHEET and TEMPLATE_MUNI_A1, shipped blank, as an installation
\* sets them.
TEMPLATE_SHEET == "Template"
TEMPLATE_MUNI_A1 == "B2"

\* The event of a run without one.
MissingEvent == [present |-> FALSE, sheet |-> "", a1 |-> "", value |-> Undefined]
\* The event of an edit: e.range.getSheet().getName(), e.range.getA1Notation()
\* and e.value, which is undefined when the cell was emptied.
EditEvent(sheet, a1, v) ==
    [present |-> TRUE, sheet |-> sheet, a1 |-> a1,
     value |-> IF v = "" THEN Undefined ELSE v]

\* The values the user gives the municipality cell: none, blanks, a
\* municipality of the Rolodex and one that is not in it.
EditedMuniValues == {"", " ", "Ames", "Zed"}

\* The edits of the user: the municipality cell, a destination cell or
\* another cell of the template, the cell B2 of another sheet; or the handler
\* run by hand.
UserEditTemplate ==
    /\ hpc = "idle"
    /\ fpc = "idle"
    /\ \/ /\ ev' = Some(MissingEvent)
          /\ UNCHANGED <<muniCell, cells>>
       \/ \E v \in EditedMuniValues :
             /\ ev' = Some(EditEvent(TEMPLATE_SHEET, TEMPLATE_MUNI_A1, v))
             /\ muniCell' = v
             /\ UNCHANGED cells
       \/ \E t \in {"B14", "B93"} :
             /\ ev' = Some(EditEvent(TEMPLATE_SHEET, t, ""))
             /\ cells' = [cells EXCEPT ![t] = Null]
             /\ UNCHANGED muniCell
       \/ \E sheet \in {TEMPLATE_SHEET, "Other"}, a1 \in {TEMPLATE_MUNI_A1, "C5"},
             v \in {"", "Ames"} :
             /\ (sheet # TEMPLATE_SHEET \/ a1 # TEMPLATE_MUNI_A1)
             /\ ev' = Some(EditEvent(sheet, a1, v))
             /\ UNCHANGED <<muniCell, cells>>
    /\ hpc' = "start"
    /\ hIdx' = 0
    /\ hEnd' = "running"
    /\ hBefore' = cells'
    /\ UNCHANGED <<fpc, secIdx, processed, outcome, cellsBefore>>
    /\ UNCHANGED <<extractVars, measureVars, stampVars, triggerVars>>

\* HandlerStart with a slip: the edited cell is not compared with
\* TEMPLATE_MUNI_A1, so that every edit of the template sheet counts.
HandlerStart_NoCellCheck ==
    /\ hpc = "start"
    /\ LET e == ev[1]
           newValue == e.value
       IN  IF ~e.present
           THEN hpc' = "idle" /\ hEnd' = "ignored" /\ UNCHANGED <<hIdx, outcome>>
           ELSE \E hostThrows \in BOOLEAN :
                  IF hostThrows
                  THEN hpc' = "idle" /\ hEnd' = "caught" /\ UNCHANGED <<hIdx, outcome>>
                  ELSE IF e.sheet # TEMPLATE_SHEET
                  THEN hpc' = "idle" /\ hEnd' = "ignored" /\ UNCHANGED <<hIdx, outcome>>
                  ELSE IF newValue # Undefined /\ TrimString(newValue) # ""
                  THEN hpc' = "fill" /\ outcome' = "called" /\ UNCHANGED <<hIdx, hEnd>>
                  ELSE hpc' = "clear" /\ hIdx' = 1 /\ UNCHANGED <<hEnd, outcome>>
    /\ UNCHANGED <<ev, hBefore>>
    /\ UNCHANGED <<muniCell, cells, fpc, secIdx, processed, cellsBefore>>
    /\ UNCHANGED <<extractVars, measureVars, stampVars, triggerVars>>

\* Lines 197-218: the checks of the event, then scenario 1 (the call of
\* fillFormattedSections) or scenario 2 (the clearing loop).  A throw of a
\* host call (getSheet, getName, getA1Notation) ends in the catch.
HandlerStart ==
    /\ hpc = "start"
    /\ LET e == ev[1]
           newValue == e.value
       IN  IF ~e.present
           THEN hpc' = "idle" /\ hEnd' = "ignored" /\ UNCHANGED <<hIdx, outcome>>
           ELSE \E hostThrows \in BOOLEAN :
                  IF hostThrows
                  THEN hpc' = "idle" /\ hEnd' = "caught" /\ UNCHANGED <<hIdx, outcome>>
                  ELSE IF e.sheet # TEMPLATE_SHEET \/ e.a1 # TEMPLATE_MUNI_A1
                  THEN hpc' = "idle" /\ hEnd' = "ignored" /\ UNCHANGED <<hIdx, outcome>>
                  ELSE IF newValue # Undefined /\ TrimString(newValue) # ""
                  THEN hpc' = "fill" /\ outcome' = "called" /\ UNCHANGED <<hIdx, hEnd>>
                  ELSE hpc' = "clear" /\ hIdx' = 1 /\ UNCHANGED <<hEnd, outcome>>
    /\ UNCHANGED <<ev, hBefore>>
    /\ UNCHANGED <<muniCell, cells, fpc, secIdx, processed, cellsBefore>>
    /\ UNCHANGED <<extractVars, measureVars, stampVars, triggerVars>>

\* Line 214: fillFormattedSections();
CallFill ==
    /\ hpc = "fill"
    /\ outcome = "called"
    /\ FillStart

\* fillFormattedSections has ended.  Its alerts (lines 93, 100, 108, 118
\* and, in its catch block, 151) may throw; the catch of the handler takes
\* what leaves the function.
HandlerReturn ==
    /\ hpc = "fill"
    /\ fpc = "idle"
    /\ outcome \in {"returned", "caught", "cleared", "finished"}
    /\ \E alertThrows \in BOOLEAN :
          hEnd' = IF alertThrows /\ outcome # "finished" THEN "caught" ELSE "filled"
    /\ hpc' = "idle"
    /\ UNCHANGED <<ev, hIdx, hBefore>>
    /\ UNCHANGED <<extractVars, fillVars, measureVars, stampVars, triggerVars>>

\* Lines 219-221 and 224-226: one round of SECTIONS.forEach(sec =>
\* sheet.getRange(sec.targetA1).clearContent()); a throw ends in the catch.
HandlerClear ==
    /\ hpc = "clear"
    /\ \E hostThrows \in BOOLEAN :
          IF hostThrows
          THEN /\ hpc' = "idle"
               /\ hEnd' = "caught"
               /\ UNCHANGED <<cells, hIdx>>
          ELSE /\ cells' = [cells EXCEPT ![SECTIONS[hIdx].targetA1] = Null]
               /\ hIdx' = hIdx + 1
               /\ IF hIdx = Len(SECTIONS)
                  THEN hpc' = "idle" /\ hEnd' = "cleared"
                  ELSE UNCHANGED <<hpc, hEnd>>
    /\ UNCHANGED <<ev, hBefore>>
    /\ UNCHANGED <<muniCell, fpc, secIdx, processed, outcome, cellsBefore>>
    /\ UNCHANGED <<extractVars, measureVars, stampVars, triggerVars>>

InitAuto ==
    /\ ExtractOff /\ MeasureOff /\ StampOff /\ TriggersOff
    /\ muniCell = ""
    /\ cells = [t \in Targets |-> Null]
    /\ fpc = "idle"
    /\ secIdx = 0
    /\ processed = <<>>
    /\ outcome = "none"
    /\ cellsBefore = [t \in Targets |-> Null]
    /\ ev = Null
    /\ hpc = "idle"
    /\ hIdx = 0
    /\ hEnd = "none"
    /\ hBefore = [t \in Targets |-> Null]

NextAuto ==
    \/ UserEditTemplate
    \/ HandlerStart
    \/ CallFill
    \/ FillExtract
    \/ MatchMarkers
    \/ TrimLeading
    \/ TrimTrailing
    \/ BuildResult
    \/ FillPlace
    \/ FillEnd
    \/ HandlerReturn
    \/ HandlerClear

SpecAuto == InitAuto /\ [][NextAuto]_vars

\* A run of the handler is over; the kinds of event the claim tells apart.
HandlerOver == hpc = "idle" /\ ev # Null
IsMuniEdit(e) == e.present /\ e.sheet = TEMPLATE_SHEET /\ e.a1 = TEMPLATE_MUNI_A1
IsBlankValue(e) == e.value = Undefined \/ TrimString(e.value) = ""
AllCleared == \A t \in Targets : cells[t] = Null
\* The first k destination cells of the table are cleared, the others are
\* as the handler found them.
ClearedUpTo(k) ==
    \A j \in 1..Len(SECTIONS) :
        cells[SECTIONS[j].targetA1] =
            IF j <= k THEN Null ELSE hBefore[SECTIONS[j].targetA1]

=============================================================================
